---- MODULE Spec2Model ----
(***************************************************************************)
(* Model of src/src/utils/pkg/distributed.py: nested containers of         *)
(* tensors, their flattening into per-dtype buffers (_recursive_read) and  *)
(* their rebuilding (_recursive_write), the collective operations reduce,  *)
(* stack and cat, the topology queries get_rank and get_world_size, the    *)
(* coordinator-gated cache helper process_on_master_and_sync_by_pickle     *)
(* and master_process_only.                                                *)
(*                                                                         *)
(* A tensor is a record [kind, dtype, shape, data, keys, items] with kind  *)
(* "tensor", data in row-major order and Len(data) = product of shape.     *)
(* A dict node keeps its keys in insertion order next to its items; list   *)
(* and tuple nodes keep their items.  Every node carries all six fields so *)
(* that any two nodes are comparable.  Booleans are stored as 0 / 1, which *)
(* is torch's own storage of th.bool; the dtype field tells them apart.    *)
(* A value that is none of these is a node whose kind names its type.      *)
(***************************************************************************)
EXTENDS Integers, Sequences, FiniteSets, TLC

\* ------------------------------------------------------------ bounds
MaxNodes == 4      \* nodes of a container in the round-trip specification
MaxDim == 2        \* largest dimension size of a round-trip leaf
MaxWorld == 3      \* largest world size (number of workers)
MaxLen == 1        \* largest leading length of a leaf passed to a collective
MaxSyncs == 2      \* most synchronize() calls of a function under master_process_only

\* ------------------------------------------------------------ sequences
RECURSIVE SumSeq(_)
SumSeq(s) == IF s = <<>> THEN 0 ELSE Head(s) + SumSeq(Tail(s))

RECURSIVE Prod(_)
Prod(s) == IF s = <<>> THEN 1 ELSE Head(s) * Prod(Tail(s))

RECURSIVE Flat(_)
Flat(ss) == IF ss = <<>> THEN <<>> ELSE Head(ss) \o Flat(Tail(ss))

Min2(a, b) == IF a < b THEN a ELSE b
Max2(a, b) == IF a > b THEN a ELSE b

\* Python's s[a:b] for 0 <= a, 0 <= b: indices a .. b-1, clamped to the length.
Slice(s, a, b) == SubSeq(s, a + 1, Min2(b, Len(s)))

\* ------------------------------------------------------------ containers
Tensor(dtype, shape, data) ==
    [kind |-> "tensor", dtype |-> dtype, shape |-> shape, data |-> data,
     keys |-> <<>>, items |-> <<>>]

Node(kind, keys, items) ==
    [kind |-> kind, dtype |-> "", shape |-> <<>>, data |-> <<>>,
     keys |-> keys, items |-> items]

\* An exception leaving a call, in the place of the value the call returns.
Raised(name) ==
    [kind |-> "raise", dtype |-> name, shape |-> <<>>, data |-> <<>>,
     keys |-> <<>>, items |-> <<>>]

numel(t) == Prod(t.shape)
flatten(t) == t.data

\* th.cat of a list of 1-D tensors of one dtype (given as their data).
th_cat(dtype, list) == Tensor(dtype, <<Len(Flat(list))>>, Flat(list))

\* ------------------------------------------------------------ ordered dicts
\* A Python dict (insertion ordered) as a sequence of [k, v] entries.
DHas(d, k) == \E i \in 1..Len(d) : d[i].k = k
DGet(d, k) == d[CHOOSE i \in 1..Len(d) : d[i].k = k].v
DSet(d, k, v) ==
    IF DHas(d, k)
    THEN [i \in 1..Len(d) |-> IF d[i].k = k THEN [k |-> k, v |-> v] ELSE d[i]]
    ELSE Append(d, [k |-> k, v |-> v])
\* defaultdict(list): d[k] += v
DExtend(d, k, v) == DSet(d, k, (IF DHas(d, k) THEN DGet(d, k) ELSE <<>>) \o v)

RECURSIVE DMerge(_, _, _)
DMerge(acc, child, i) ==
    IF i > Len(child) THEN acc
    ELSE DMerge(DExtend(acc, child[i].k, child[i].v), child, i + 1)

\* A value that is no tensor, dict, list or tuple: a node whose kind is the
\* name of its Python type ("str", "int", "NoneType", ...).
Unknown(type) == Node(type, <<>>, <<>>)

\* A container in the sense of the data model: tensors, dicts, lists and
\* tuples all the way down.
RECURSIVE IsContainer(_)
IsContainer(c) ==
    \/ c.kind = "tensor"
    \/ /\ c.kind \in {"dict", "list", "tuple"}
       /\ \A i \in 1..Len(c.items) : IsContainer(c.items[i])

\* ------------------------------------------------------------ _recursive_read
\* values: dtype -> list of flattened leaves; sizes: dtype -> list of numel;
\* err: "" when the call returns, else the name of the exception it raises
\* (values and sizes are then lost with the frame).
ReadRaised(name) == [err |-> name, values |-> <<>>, sizes |-> <<>>]

RECURSIVE _recursive_read(_), ReadChildren(_, _, _)
_recursive_read(obj) ==
    IF obj.kind = "tensor"
    THEN [err |-> "",
          values |-> <<[k |-> obj.dtype, v |-> <<flatten(obj)>>]>>,
          sizes |-> <<[k |-> obj.dtype, v |-> <<numel(obj)>>]>>]
    ELSE IF obj.kind = "dict"
    THEN ReadChildren(obj.items, 1, [err |-> "", values |-> <<>>, sizes |-> <<>>])
    ELSE IF obj.kind = "list" \/ obj.kind = "tuple"
    THEN ReadChildren(obj.items, 1, [err |-> "", values |-> <<>>, sizes |-> <<>>])
    ELSE ReadRaised("ValueError")

\* the loops of lines 162-167 and 169-174; an exception of a child's call
\* leaves the loop
ReadChildren(items, i, acc) ==
    IF i > Len(items) THEN acc
    ELSE LET child == _recursive_read(items[i])
         IN IF child.err # "" THEN ReadRaised(child.err)
            ELSE ReadChildren(items, i + 1,
                    [err |-> "",
                     values |-> DMerge(acc.values, child.values, 1),
                     sizes |-> DMerge(acc.sizes, child.sizes, 1)])

\* {k: th.cat(v) for k, v in values.items()}
CatValues(values) ==
    [i \in 1..Len(values) |->
        [k |-> values[i].k, v |-> th_cat(values[i].k, values[i].v)]]

\* ------------------------------------------------------------ tensor views
\* t.split([size, t.shape[-1] - size], dim=-1): the two parts, or no parts
\* when a split size is negative.
LastDim(t) == t.shape[Len(t.shape)]
LeadShape(t) == SubSeq(t.shape, 1, Len(t.shape) - 1)

SplitOk(t, size) == size >= 0 /\ size <= LastDim(t)

SplitPart(t, lo, hi) ==
    LET n == LastDim(t)
        rows == Prod(LeadShape(t))
    IN Tensor(t.dtype, LeadShape(t) \o <<hi - lo>>,
              Flat([r \in 1..rows |-> SubSeq(t.data, (r - 1) * n + lo + 1, (r - 1) * n + hi)]))

\* t.view(lead + (-1,) + trailing): torch infers the -1 dimension only when
\* the product of the other dimensions is positive and divides the element
\* count.
ViewOk(t, lead, trailing) ==
    LET newsize == Prod(lead) * Prod(trailing)
    IN newsize > 0 /\ Len(t.data) % newsize = 0

View(t, lead, trailing) ==
    LET newsize == Prod(lead) * Prod(trailing)
    IN Tensor(t.dtype, lead \o <<Len(t.data) \div newsize>> \o trailing, t.data)

\* ------------------------------------------------------------ _recursive_write
None == [isNone |-> TRUE, tbl |-> <<>>]
Some(tbl) == [isNone |-> FALSE, tbl |-> tbl]

WriteFail(values, sizes) ==
    [ok |-> FALSE, obj |-> Raised("RuntimeError"), values |-> values, sizes |-> sizes]

WriteTensor(obj, values, sizes) ==
    LET s == DGet(sizes.tbl, obj.dtype)
        sizeOk == sizes.isNone \/ Len(s) >= 1
        size == IF sizes.isNone THEN numel(obj) ELSE Head(s)
        sizes1 == IF sizes.isNone THEN sizes
                  ELSE Some(DSet(sizes.tbl, obj.dtype, Tail(s)))
        v == DGet(values, obj.dtype)
    IN IF ~sizeOk THEN WriteFail(values, sizes)
       ELSE IF ~SplitOk(v, size) THEN WriteFail(values, sizes1)
       ELSE LET new_obj == SplitPart(v, 0, size)
                rest == SplitPart(v, size, LastDim(v))
            IN IF ~ViewOk(new_obj, LeadShape(new_obj), SubSeq(obj.shape, 2, Len(obj.shape)))
               THEN WriteFail(values, sizes1)
               ELSE [ok |-> TRUE,
                     obj |-> View(new_obj, LeadShape(new_obj),
                                  SubSeq(obj.shape, 2, Len(obj.shape))),
                     values |-> DSet(values, obj.dtype, rest),
                     sizes |-> sizes1]

\* lines 203-204: raise ValueError("Unknown type ...")
WriteUnknown(values, sizes) ==
    [ok |-> FALSE, obj |-> Raised("ValueError"), values |-> values, sizes |-> sizes]

RECURSIVE _recursive_write(_, _, _), WriteChildren(_, _, _, _, _)
_recursive_write(obj, values, sizes) ==
    IF obj.kind = "tensor" THEN WriteTensor(obj, values, sizes)
    ELSE IF obj.kind = "dict"
    THEN LET w == WriteChildren(obj.items, 1, <<>>, values, sizes)
         IN IF ~w.ok THEN w ELSE [w EXCEPT !.obj = Node("dict", obj.keys, w.obj)]
    ELSE IF obj.kind = "list" \/ obj.kind = "tuple"
    THEN LET w == WriteChildren(obj.items, 1, <<>>, values, sizes)
         IN IF ~w.ok THEN w ELSE [w EXCEPT !.obj = Node("list", <<>>, w.obj)]
    ELSE WriteUnknown(values, sizes)

\* the loops of lines 196-197 and 200-202; obj holds the children rebuilt so far
WriteChildren(items, i, done, values, sizes) ==
    IF i > Len(items)
    THEN [ok |-> TRUE, obj |-> done, values |-> values, sizes |-> sizes]
    ELSE LET w == _recursive_write(items[i], values, sizes)
         IN IF ~w.ok THEN w
            ELSE WriteChildren(items, i + 1, Append(done, w.obj), w.values, w.sizes)

\* ------------------------------------------------------------ dtypes
\* x.type(dtype) on an integer-valued element: th.bool is "non-zero", th.uint8
\* wraps modulo 256, the signed integer dtypes keep the (small) value.
Cast(dtype, x) ==
    IF dtype = "bool" THEN (IF x # 0 THEN 1 ELSE 0)
    ELSE IF dtype = "uint8" THEN x % 256
    ELSE x

\* The quotient a / b (b > 0) of true division, cast from float to an integer
\* dtype: rounded toward zero.
TruncDiv(a, b) == IF a >= 0 THEN a \div b ELSE -((-a) \div b)

\* (x / den).type(dtype): the float quotient x / den cast to dtype.
CastQuotient(dtype, x, den) ==
    IF dtype = "bool" THEN (IF x # 0 THEN 1 ELSE 0)
    ELSE IF dtype = "uint8" THEN TruncDiv(x, den) % 256
    ELSE TruncDiv(x, den)

\* Type without the conversion: the buffer is kept as the collective left it.
TypeSkipped(t, dtype) == t

\* t.type(dtype), t.byte()
Type(t, dtype) ==
    [t EXCEPT !.dtype = dtype, !.data = [i \in 1..Len(t.data) |-> Cast(dtype, t.data[i])]]
byte(t) == Type(t, "uint8")

\* (t / den).type(dtype) of lines 247-248
DivType(t, den, dtype) ==
    [t EXCEPT !.dtype = dtype,
              !.data = [i \in 1..Len(t.data) |-> CastQuotient(dtype, t.data[i], den)]]

\* ------------------------------------------------------------ dist.ReduceOp
\* The reduction operators getattr(dist.ReduceOp, NAME) finds.
ReduceOpNames == {"SUM", "PRODUCT", "MIN", "MAX", "BAND", "BOR", "BXOR"}

\* The op names the model passes to reduce, and str.upper() on them.
OpNames == {"sum", "mean", "min", "max", "product", "band", "MEAN", "foo"}
upper(name) ==
    CASE name = "sum" -> "SUM"
      [] name = "mean" -> "MEAN"
      [] name = "min" -> "MIN"
      [] name = "max" -> "MAX"
      [] name = "product" -> "PRODUCT"
      [] name = "band" -> "BAND"
      [] name = "MEAN" -> "MEAN"
      [] name = "foo" -> "FOO"

\* Bitwise operators on two's complement integers of small magnitude (below
\* Word / 2), computed on their residues modulo Word.
Word == 2 ^ 16
RECURSIVE BitOp(_, _, _)
BitOp(op, a, b) ==
    IF a = 0 /\ b = 0 THEN 0
    ELSE LET x == a % 2
             y == b % 2
             z == IF op = "BAND" THEN x * y
                  ELSE IF op = "BOR" THEN Max2(x, y)
                  ELSE (x + y) % 2
         IN z + 2 * BitOp(op, a \div 2, b \div 2)
Bitwise(op, a, b) ==
    LET u == BitOp(op, a % Word, b % Word)
    IN IF u >= Word \div 2 THEN u - Word ELSE u

\* One application of a reduction operator to two elements of a buffer of the
\* given dtype.
Combine(op, dtype, a, b) ==
    LET x == CASE op = "SUM" -> a + b
               [] op = "PRODUCT" -> a * b
               [] op = "MIN" -> Min2(a, b)
               [] op = "MAX" -> Max2(a, b)
               [] OTHER -> Bitwise(op, a, b)
    IN IF dtype = "uint8" THEN x % 256 ELSE x

RECURSIVE Fold(_, _, _)
Fold(op, dtype, xs) ==
    IF Len(xs) = 1 THEN xs[1]
    ELSE Combine(op, dtype, Fold(op, dtype, SubSeq(xs, 1, Len(xs) - 1)), xs[Len(xs)])

\* ------------------------------------------------------------ state
VARIABLES
    rt_pc,      \* round trip: "start", "flat", "done"
    rt_obj,     \* round trip: the container
    rt_flat,    \* round trip: the per-dtype buffers {k: th.cat(v)}
    rt_out      \* round trip: what _recursive_write returned

VARIABLES
    world_size, \* get_world_size(): the number of workers, ranks 0 .. world_size-1
    g_pc,       \* gating: each worker's position in wrapper (lines 46-63), or its exception
    artifact,   \* gating: os.path.exists(filename)
    g_absent0,  \* gating: the artifact was absent when the call started
    skip_cache, \* gating: the skip_cache keyword (the bypass flag) of each worker
    persists,   \* gating: whether func saves the artifact when it runs
    g_wait,     \* gating: dist.barrier() calls each worker has entered
    g_passed,   \* gating: dist.barrier() calls each worker has returned from
    g_load,     \* gating: where each worker loaded the artifact ("none" if not)
    g_runs,     \* gating: executions of func that returned, by each worker
    g_started,  \* gating: calls of func by each worker
    g_cache,    \* gating: how wrapper finds the filename
    g_writers,  \* gating: the workers whose func has the artifact open for writing
    g_log       \* gating: the lines each worker passed to log_func

VARIABLES
    call,       \* collectives: the call every worker makes, [fn, op, dst]
    obj,        \* collectives: the container each worker passes
    wk          \* collectives: each worker's position and locals in the call

VARIABLES
    cpu_group,  \* the module global cpu_group (line 11), "None" until initialized
    gpu_group,  \* the module global gpu_group (line 12), "None" until initialized
    device,     \* the device type of the tensors passed to the collectives
    dist_initialized, \* dist.is_initialized(), the same on every worker
    environ     \* which of RANK and WORLD_SIZE the launcher put into os.environ

VARIABLES
    m_pc,       \* master_process_only: each worker's position in wrapper (lines 72-76), or its exception
    m_syncs,    \* master_process_only: the synchronize() calls func itself makes
    m_wait,     \* master_process_only: dist.barrier() calls each worker has entered
    m_ret       \* master_process_only: what wrapper returned on each worker

VARIABLES
    ko_pc,      \* key order: "start", "flat", "done"
    ko_a,       \* key order: a container
    ko_b,       \* key order: the same container, its dicts built in another order
    ko_fa,      \* key order: _recursive_read(ko_a)
    ko_fb,      \* key order: _recursive_read(ko_b)
    ko_out      \* key order: ko_b rebuilt from the buffers of ko_a

rt_vars == <<rt_pc, rt_obj, rt_flat, rt_out>>
g_vars == <<g_pc, artifact, g_absent0, skip_cache, persists, g_wait, g_passed, g_load, g_runs,
            g_started, g_cache, g_writers, g_log>>
op_vars == <<call, obj, wk>>
env_vars == <<cpu_group, gpu_group, device, dist_initialized, environ>>
m_vars == <<m_pc, m_syncs, m_wait, m_ret>>
ko_vars == <<ko_pc, ko_a, ko_b, ko_fa, ko_fb, ko_out>>
rest_vars == <<env_vars, m_vars, ko_vars>>
vars == <<rt_vars, world_size, g_vars, op_vars, rest_vars>>

Ranks == 0..(world_size - 1)

\* The values of the variables a specification does not use.
RTIdle ==
    /\ rt_pc = "idle"
    /\ rt_obj = Node("list", <<>>, <<>>)
    /\ rt_flat = <<>>
    /\ rt_out = Node("list", <<>>, <<>>)
GateIdle ==
    /\ g_pc = <<>> /\ artifact = FALSE /\ g_absent0 = FALSE /\ skip_cache = <<>>
    /\ persists = FALSE /\ g_wait = <<>> /\ g_passed = <<>> /\ g_load = <<>>
    /\ g_runs = <<>> /\ g_started = <<>> /\ g_writers = {} /\ g_log = <<>>
    /\ g_cache = [kwarg |-> FALSE, arg |-> FALSE, passed |-> FALSE]
OpsIdle ==
    /\ call = [fn |-> "none", op |-> "", dst |-> <<>>] /\ obj = <<>> /\ wk = <<>>
EnvIdle ==
    /\ cpu_group = "None" /\ gpu_group = "None" /\ device = "cpu"
    /\ dist_initialized = FALSE /\ environ = {}
MasterIdle ==
    /\ m_pc = <<>> /\ m_syncs = 0 /\ m_wait = <<>> /\ m_ret = <<>>
KOIdle ==
    /\ ko_pc = "idle"
    /\ ko_a = Node("list", <<>>, <<>>) /\ ko_b = Node("list", <<>>, <<>>)
    /\ ko_fa = <<>> /\ ko_fb = <<>> /\ ko_out = Node("list", <<>>, <<>>)

\* ------------------------------------------------------------ round trip
\* Leaves: every int64 shape of at most two dimensions with sizes 0..MaxDim,
\* and the one-dimensional bool leaves.  The data of a leaf counts upwards
\* from the number of its dimensions, so that leaves differ in their values.
Dims == 0..MaxDim
RTShapes == {<<>>} \cup {<<a>> : a \in Dims} \cup {<<a, b>> : a \in Dims, b \in Dims}
Fill(dtype, shape) ==
    [i \in 1..Prod(shape) |->
        IF dtype = "bool" THEN i % 2 ELSE i + 10 * Len(shape)]
RTLeaves ==
    {Tensor("int64", sh, Fill("int64", sh)) : sh \in RTShapes}
    \cup {Tensor("bool", <<a>>, Fill("bool", <<a>>)) : a \in Dims}

\* What stands at the leaf positions of a round-trip container: a leaf, or a
\* value that is no tensor (a str).
RTItems == RTLeaves \cup {Unknown("str")}

RECURSIVE NodeCount(_)
NodeCount(c) == 1 + SumSeq([i \in 1..Len(c.items) |-> NodeCount(c.items[i])])

KeyNames == <<"a", "b", "c", "d", "e">>

\* Skeletons[n]: the container structures of at most n nodes, every leaf the
\* same placeholder (trees), and the sequences of such structures of at most
\* n nodes in all (forests).
Hole == Tensor("int64", <<>>, <<0>>)
Skeletons[n \in 0..MaxNodes] ==
    LET trees ==
            IF n = 0 THEN {}
            ELSE {Hole}
                 \cup {Node("dict", SubSeq(KeyNames, 1, Len(f)), f) : f \in Skeletons[n - 1].forests}
                 \cup {Node("list", <<>>, f) : f \in Skeletons[n - 1].forests}
                 \cup {Node("tuple", <<>>, f) : f \in Skeletons[n - 1].forests}
    IN [trees |-> trees,
        forests |-> {<<>>} \cup UNION {{<<t>> \o f : f \in Skeletons[n - NodeCount(t)].forests} : t \in trees}]

RECURSIVE LeafCount(_)
LeafCount(c) ==
    IF c.kind = "tensor" THEN 1
    ELSE SumSeq([i \in 1..Len(c.items) |-> LeafCount(c.items[i])])

\* The structure c with its leaves, in traversal order, replaced by
\* ls[from + 1], ls[from + 2], ...
RECURSIVE Plug(_, _, _)
Plug(c, ls, from) ==
    IF c.kind = "tensor" THEN ls[from + 1]
    ELSE [c EXCEPT !.items =
            [i \in 1..Len(c.items) |->
                Plug(c.items[i], ls,
                     from + SumSeq([j \in 1..(i - 1) |-> LeafCount(c.items[j])]))]]

RTInit ==
    /\ \E sk \in Skeletons[MaxNodes].trees :
         \E ls \in [1..LeafCount(sk) -> RTItems] : rt_obj = Plug(sk, ls, 0)
    /\ rt_pc = "start"
    /\ rt_flat = <<>>
    /\ rt_out = Node("list", <<>>, <<>>)
    /\ world_size = 1
    /\ GateIdle
    /\ OpsIdle
    /\ EnvIdle /\ MasterIdle /\ KOIdle

\* lines 227-228: values = _recursive_read(obj)[0]; {k: th.cat(v)}; the
\* exception of _recursive_read ends the call
RTFlatten ==
    /\ rt_pc = "start"
    /\ LET read == _recursive_read(rt_obj)
       IN IF read.err # ""
          THEN /\ rt_out' = Raised(read.err)
               /\ rt_pc' = "done"
               /\ UNCHANGED rt_flat
          ELSE /\ rt_flat' = CatValues(read.values)
               /\ rt_pc' = "flat"
               /\ UNCHANGED rt_out
    /\ UNCHANGED <<rt_obj, world_size, g_vars, op_vars, rest_vars>>

\* line 250 without the collective: _recursive_write(obj, values)[0]
RTRebuild ==
    /\ rt_pc = "flat"
    /\ rt_out' = _recursive_write(rt_obj, rt_flat, None).obj
    /\ rt_pc' = "done"
    /\ UNCHANGED <<rt_obj, rt_flat, world_size, g_vars, op_vars, rest_vars>>

RTNext == RTFlatten \/ RTRebuild
SpecRT == RTInit /\ [][RTNext]_vars

\* Equality of containers as the specification's data model has it: a
\* Sequence node is a list or a tuple.
RECURSIVE Canon(_)
Canon(c) ==
    IF c.kind \in {"list", "tuple"}
    THEN Node("list", <<>>, [i \in 1..Len(c.items) |-> Canon(c.items[i])])
    ELSE IF c.kind = "dict"
    THEN Node("dict", c.keys, [i \in 1..Len(c.items) |-> Canon(c.items[i])])
    ELSE c

RECURSIVE Leaves(_)
Leaves(c) ==
    IF c.kind = "tensor" THEN <<c>>
    ELSE Flat([i \in 1..Len(c.items) |-> Leaves(c.items[i])])

\* C4: rebuilding a container of leaves, maps and sequences from its flattened
\* per-dtype buffers with sizes=None yields a container equal to the original
\* (same structure, same leaf shapes, same values), whatever the leaf shapes.
C4_RoundTrip == (rt_pc = "done" /\ IsContainer(rt_obj)) => Canon(rt_out) = Canon(rt_obj)

\* ------------------------------------------------------------ topology
\* get_rank of a process that has no rank of its own: line 91 on every worker.
get_rank_unset(r) == 0

\* lines 87-91 on worker r: the rank dist gives it, else the RANK the launcher
\* gave it, else 0
get_rank(r) ==
    IF dist_initialized THEN r
    ELSE IF "RANK" \in environ THEN r
    ELSE 0

\* lines 100-104: the size of the world of dist, else the launcher's
\* WORLD_SIZE, else 1
get_world_size ==
    IF dist_initialized THEN world_size
    ELSE IF "WORLD_SIZE" \in environ THEN world_size
    ELSE 1

\* The variables the launcher sets for a worker (with them MASTER_ADDR and
\* MASTER_PORT, which this module reads for the configuration only).
Launched == {"RANK", "WORLD_SIZE"}

\* dist.barrier() without a default process group raises; which exception is
\* a matter of the torch version.
NoDefaultGroup == {"RuntimeError", "ValueError"}

\* lines 129-137: the groups init_process_group(backend) assigns to the
\* module globals: dist.group.WORLD of the backend, and for nccl a new gloo
\* group for the cpu tensors
World(backend) == IF backend = "nccl" THEN "WORLD/nccl" ELSE "WORLD/gloo"
init_process_group(backend) ==
    [cpu_group |-> IF backend = "nccl" THEN "new_group/gloo" ELSE World(backend),
     gpu_group |-> World(backend)]

\* What a process knows of its topology: whether dist is initialized, the two
\* module globals (lines 11-12), and the error its bootstrap ended in.
Unstarted ==
    [initialized |-> FALSE, cpu_group |-> "None", gpu_group |-> "None", err |-> "none"]
Started(backend) ==
    [initialized |-> TRUE,
     cpu_group |-> init_process_group(backend).cpu_group,
     gpu_group |-> init_process_group(backend).gpu_group,
     err |-> "none"]

\* lines 15-21: with use_deepspeed set on a machine with an accelerator,
\* deepspeed.init_distributed initializes dist; the module globals are not
\* assigned.  Without an accelerator line 16 clears use_deepspeed.
initialize_deepspeed(t, use_deepspeed) ==
    IF use_deepspeed THEN [t EXCEPT !.initialized = TRUE] ELSE t

\* lines 24-40: cfg.world_size is the launcher's WORLD_SIZE, else 1 (line 26);
\* in a world of more than one worker where dist is not yet initialized,
\* init_process_group("nccl", init_method="env://") is called (lines 38-40),
\* which raises when the environment gives the worker no RANK.
initialize_distributed(t, env) ==
    LET cfg_world_size == IF "WORLD_SIZE" \in env THEN world_size ELSE 1
    IN IF cfg_world_size > 1 /\ ~t.initialized
       THEN IF "RANK" \in env THEN Started("nccl")
            ELSE [t EXCEPT !.err = "ValueError"]
       ELSE t

\* How a job boots before the workers call into this module: the caller may
\* call init_process_group itself (backend; rank and world size given in the
\* call or by the environment), then initialize_deepspeed, then
\* initialize_distributed, each of them or none, under any part of the
\* launcher's environment.
Bootstraps ==
    [backend : {"None", "gloo", "nccl"}, use_deepspeed : BOOLEAN,
     distributed : BOOLEAN, environ : SUBSET Launched]

Topology(b) ==
    LET t0 == IF b.backend = "None" THEN Unstarted ELSE Started(b.backend)
        t1 == initialize_deepspeed(t0, b.use_deepspeed)
    IN IF b.distributed THEN initialize_distributed(t1, b.environ) ELSE t1

\* The topology of a job: the outcome of a bootstrap that did not fail.
TopologyInit ==
    /\ \E b \in Bootstraps :
          /\ Topology(b).err = "none"
          /\ dist_initialized = Topology(b).initialized
          /\ environ = b.environ
          /\ cpu_group = Topology(b).cpu_group
          /\ gpu_group = Topology(b).gpu_group
    /\ device = "cpu"

\* ------------------------------------------------------------ coordinator gating
\* process_on_master_and_sync_by_pickle(cache_arg, cache_kwarg)(func): every
\* worker calls wrapper for the same filename, each with its skip_cache.
\* g_cache tells how the decorator finds the filename (kwarg: cache_kwarg is
\* given, arg: cache_arg is given) and whether the call passes that argument.
\* func is the caller's computation: it opens the artifact and saves it
\* (persists) or saves nothing, and returns or raises.
Lookups ==
    {[kwarg |-> TRUE, arg |-> FALSE, passed |-> p] : p \in BOOLEAN}
    \cup {[kwarg |-> FALSE, arg |-> TRUE, passed |-> p] : p \in BOOLEAN}
    \cup {[kwarg |-> FALSE, arg |-> FALSE, passed |-> FALSE]}

g_args == <<g_absent0, skip_cache, persists, g_cache>>

GateInit ==
    /\ world_size \in 1..MaxWorld
    /\ TopologyInit
    /\ artifact \in BOOLEAN
    /\ g_absent0 = ~artifact
    /\ skip_cache \in [Ranks -> BOOLEAN]
    /\ persists \in BOOLEAN
    /\ g_cache \in Lookups
    /\ g_writers = {}
    /\ g_pc = [r \in Ranks |-> "call"]
    /\ g_wait = [r \in Ranks |-> 0]
    /\ g_passed = [r \in Ranks |-> 0]
    /\ g_load = [r \in Ranks |-> "none"]
    /\ g_started = [r \in Ranks |-> 0]
    /\ g_runs = [r \in Ranks |-> 0]
    /\ g_log = [r \in Ranks |-> <<>>]
    /\ RTIdle
    /\ OpsIdle
    /\ MasterIdle /\ KOIdle

\* lines 47-52: filename = kwargs[cache_kwarg] (KeyError), or
\* filename = args[cache_arg] (IndexError), or the log line and no filename
Resolve(r) ==
    /\ g_pc[r] = "call"
    /\ IF g_cache.kwarg
       THEN /\ g_pc' = [g_pc EXCEPT ![r] = IF g_cache.passed THEN "check" ELSE "KeyError"]
            /\ UNCHANGED g_log
       ELSE IF g_cache.arg
       THEN /\ g_pc' = [g_pc EXCEPT ![r] = IF g_cache.passed THEN "check" ELSE "IndexError"]
            /\ UNCHANGED g_log
       ELSE /\ g_pc' = [g_pc EXCEPT ![r] = "check"]
            /\ g_log' = [g_log EXCEPT ![r] = Append(@, "No cache file specified")]
    /\ UNCHANGED <<artifact, g_args, g_writers, g_wait, g_passed, g_load, g_started,
                   g_runs, world_size, rt_vars, op_vars, rest_vars>>

\* filename is bound when line 54 reads it
FilenameBound == g_cache.kwarg \/ g_cache.arg

\* lines 53-55, 57-58: the test of the cache and the choice of the branch;
\* UnboundLocalError when no filename was bound
Check(r) ==
    /\ g_pc[r] = "check"
    /\ g_pc' = [g_pc EXCEPT ![r] =
                  IF ~FilenameBound THEN "UnboundLocalError"
                  ELSE IF ~artifact \/ skip_cache[r]
                  THEN (IF get_rank(r) = 0 THEN "func" ELSE "sync")
                  ELSE "load_cached"]
    /\ UNCHANGED <<artifact, g_args, g_writers, g_wait, g_passed, g_load, g_started,
                   g_runs, g_log, world_size, rt_vars, op_vars, rest_vars>>

\* line 56: func(*args, **kwargs) is called; a func that saves the artifact
\* opens the file, which exists from then on
FuncBegin(r) ==
    /\ g_pc[r] = "func"
    /\ g_started' = [g_started EXCEPT ![r] = @ + 1]
    /\ g_pc' = [g_pc EXCEPT ![r] = "in_func"]
    /\ artifact' = (artifact \/ persists)
    /\ g_writers' = IF persists THEN g_writers \cup {r} ELSE g_writers
    /\ UNCHANGED <<g_args, g_wait, g_passed, g_load, g_runs, g_log,
                   world_size, rt_vars, op_vars, rest_vars>>

\* line 56: func returns, the artifact written
FuncEnd(r) ==
    /\ g_pc[r] = "in_func"
    /\ g_runs' = [g_runs EXCEPT ![r] = @ + 1]
    /\ g_writers' = g_writers \ {r}
    /\ g_pc' = [g_pc EXCEPT ![r] = "sync"]
    /\ UNCHANGED <<artifact, g_args, g_wait, g_passed, g_load, g_started, g_log,
                   world_size, rt_vars, op_vars, rest_vars>>

\* line 56: func raises; the exception leaves wrapper, the file stays as func
\* left it
FuncRaise(r) ==
    /\ g_pc[r] = "in_func"
    /\ g_pc' = [g_pc EXCEPT ![r] = "FuncError"]
    /\ UNCHANGED <<artifact, g_args, g_writers, g_wait, g_passed, g_load, g_started,
                   g_runs, g_log, world_size, rt_vars, op_vars, rest_vars>>

\* pickle_load(filename) on worker r: the pickled object; of a file a func has
\* open for writing the object, or an error of the unpickler
LoadErrors == {"EOFError", "UnpicklingError"}
PickleLoad(r, how) ==
    \/ /\ g_load' = [g_load EXCEPT ![r] = how]
       /\ g_pc' = [g_pc EXCEPT ![r] = "returned"]
    \/ /\ g_writers # {}
       /\ \E e \in LoadErrors : g_pc' = [g_pc EXCEPT ![r] = e]
       /\ UNCHANGED g_load

\* lines 58-60: the log line on rank 0; return pickle_load(filename)
LoadCached(r) ==
    /\ g_pc[r] = "load_cached"
    /\ g_log' = [g_log EXCEPT ![r] = IF get_rank(r) = 0 THEN Append(@, "Loaded cache") ELSE @]
    /\ PickleLoad(r, "cached")
    /\ UNCHANGED <<artifact, g_args, g_writers, g_wait, g_passed, g_started,
                   g_runs, world_size, rt_vars, op_vars, rest_vars>>

\* line 61, lines 151-152: synchronize() enters dist.barrier() when the world
\* has more than one worker; without a default process group the barrier raises
Synchronize(r) ==
    /\ g_pc[r] = "sync"
    /\ IF get_world_size > 1
       THEN IF dist_initialized
            THEN /\ g_wait' = [g_wait EXCEPT ![r] = @ + 1]
                 /\ g_pc' = [g_pc EXCEPT ![r] = "barrier"]
            ELSE /\ \E e \in NoDefaultGroup : g_pc' = [g_pc EXCEPT ![r] = e]
                 /\ UNCHANGED g_wait
       ELSE /\ g_pc' = [g_pc EXCEPT ![r] = "assert"]
            /\ UNCHANGED g_wait
    /\ UNCHANGED <<artifact, g_args, g_writers, g_passed, g_load, g_started,
                   g_runs, g_log, world_size, rt_vars, op_vars, rest_vars>>

\* dist.barrier() returns once every worker of the group has entered it
BarrierReturn(r) ==
    /\ g_pc[r] = "barrier"
    /\ \A q \in Ranks : g_wait[q] >= g_wait[r]
    /\ g_passed' = [g_passed EXCEPT ![r] = @ + 1]
    /\ g_pc' = [g_pc EXCEPT ![r] = "assert"]
    /\ UNCHANGED <<artifact, g_args, g_writers, g_wait, g_load, g_started,
                   g_runs, g_log, world_size, rt_vars, op_vars, rest_vars>>

\* AssertLoad without the assert of line 62: the load of line 63 is attempted
\* whether or not the artifact exists.
AssertLoadUnchecked(r) ==
    /\ g_pc[r] = "assert"
    /\ PickleLoad(r, "synced")
    /\ UNCHANGED <<artifact, g_args, g_writers, g_wait, g_passed, g_started,
                   g_runs, g_log, world_size, rt_vars, op_vars, rest_vars>>

\* lines 62-63: assert os.path.exists(filename); return pickle_load(filename)
AssertLoad(r) ==
    /\ g_pc[r] = "assert"
    /\ IF artifact
       THEN PickleLoad(r, "synced")
       ELSE /\ g_pc' = [g_pc EXCEPT ![r] = "AssertionError"]
            /\ UNCHANGED g_load
    /\ UNCHANGED <<artifact, g_args, g_writers, g_wait, g_passed, g_started,
                   g_runs, g_log, world_size, rt_vars, op_vars, rest_vars>>

GateNext ==
    \/ \E r \in Ranks : Resolve(r)
    \/ \E r \in Ranks : Check(r)
    \/ \E r \in Ranks : FuncBegin(r)
    \/ \E r \in Ranks : FuncEnd(r)
    \/ \E r \in Ranks : FuncRaise(r)
    \/ \E r \in Ranks : LoadCached(r)
    \/ \E r \in Ranks : Synchronize(r)
    \/ \E r \in Ranks : BarrierReturn(r)
    \/ \E r \in Ranks : AssertLoad(r)

SpecGate == GateInit /\ [][GateNext]_vars

\* The call the claims about the gated helper are made of: the topology is
\* set up (dist initialized), the decorator names an argument that the call
\* passes, and every worker passes the same skip_cache.
Located == FilenameBound /\ g_cache.passed
SameCall == \A r \in Ranks : skip_cache[r] = skip_cache[0]
GatedCall == dist_initialized /\ Located /\ SameCall

\* C5: when the artifact is absent at the start or the bypass flag is set,
\* every worker that returns has blocked on the barrier exactly once, and no
\* worker waits at the barrier for a worker that returned without reaching it
\* (worlds of more than one worker; a single worker makes no barrier call).
C5_BarrierProtocol ==
    (world_size > 1 /\ GatedCall /\ (g_absent0 \/ skip_cache[0])) =>
        /\ \A r \in Ranks : g_pc[r] = "returned" => g_wait[r] = 1 /\ g_passed[r] = 1
        /\ ~ \E r \in Ranks, q \in Ranks :
                g_pc[r] = "barrier" /\ g_pc[q] = "returned" /\ g_wait[q] = 0

\* C6: when the artifact is absent at the start, a worker other than the
\* coordinator loads the artifact only after the coordinator has run func and
\* after the worker itself has returned from the barrier.
C6_ReadAfterBarrier ==
    (g_absent0 /\ GatedCall) =>
        \A r \in Ranks \ {0} :
            g_load[r] # "none" => (g_runs[0] >= 1 /\ g_passed[r] >= 1)

\* C12: a worker that has passed synchronize() (the barrier, in a world of
\* more than one worker) and finds no artifact ends in the assertion error of
\* line 62 (MissingCacheArtifact) without loading and without returning a
\* value; when it finds the artifact it goes on to load it.
C12_MissingCacheArtifact ==
    [][\A r \in Ranks :
          (g_pc[r] = "assert" /\ g_pc'[r] # "assert") =>
              /\ get_world_size > 1 => g_passed[r] = 1
              /\ IF artifact
                 THEN g_pc'[r] \in {"returned"} \cup LoadErrors
                 ELSE g_pc'[r] = "AssertionError" /\ g_load'[r] = "none"]_vars

\* C12 happens: in a world of three the coordinator ran a func that saves
\* nothing, and a worker other than the coordinator, past the barrier, failed.
C12_Witness ==
    /\ world_size = 3 /\ ~persists /\ g_runs[0] = 1
    /\ \E r \in Ranks \ {0} :
          g_pc[r] = "AssertionError" /\ g_passed[r] = 1 /\ g_load[r] = "none"

\* C17 as stated, in any call of the helper by all workers: func is executed
\* by rank 0 only and at most once; rank 0 has executed it once it is past
\* line 56 when the artifact was absent or skip_cache is set, and no worker
\* executes it when the artifact was present and skip_cache is not set.
C17_SingleExecution ==
    /\ \A r \in Ranks \ {0} : g_started[r] = 0
    /\ g_started[0] <= 1
    /\ (Located /\ g_pc[0] \notin {"call", "check", "func"} /\ (g_absent0 \/ skip_cache[0]))
          => g_started[0] = 1
    /\ (~g_absent0 /\ ~skip_cache[0]) => \A r \in Ranks : g_started[r] = 0

\* Every worker knows its rank: dist is initialized or the launcher set RANK.
RanksResolved == dist_initialized \/ "RANK" \in environ

\* C17 amended: in a call of the helper by workers that know their ranks, func
\* is executed by rank 0 only and at most once; rank 0 has executed it once it
\* is past line 56 when the artifact was absent or skip_cache is set, and no
\* worker executes it when the artifact was present and skip_cache is not set.
\* (Only func creates the artifact, so what rank 0 finds at its test of line
\* 54 is what existed when the call started.)
C17_ResolvedRanks ==
    RanksResolved =>
        /\ \A r \in Ranks \ {0} : g_started[r] = 0 /\ g_runs[r] = 0
        /\ g_started[0] <= 1 /\ g_runs[0] <= g_started[0]
        /\ (Located /\ g_pc[0] \notin {"call", "check", "func"}
                /\ (g_absent0 \/ skip_cache[0])) => g_started[0] = 1
        /\ (~g_absent0 /\ ~skip_cache[0]) => \A r \in Ranks : g_started[r] = 0

\* C17 happens: three workers have returned from a call with the artifact
\* present and skip_cache set; the coordinator ran func.
C17_Witness ==
    /\ world_size = 3 /\ RanksResolved /\ ~g_absent0 /\ g_runs[0] = 1
    /\ \A r \in Ranks : skip_cache[r] /\ g_pc[r] = "returned"

\* ------------------------------------------------------------ collectives: workers
\* A worker in reduce, stack or cat: pc is "call" (not yet started),
\* "collective" (blocked in dist.all_reduce on buf with operator op), "resume"
\* (the collective has returned, buf holds its result), "returned" or "raised";
\* k is the index of the dtype bucket of the running loop, acc the dict built
\* by the loop (reduced, stacked, cated), sizes the stacked size table of cat,
\* ncoll the collective calls issued, wlog the writes cat made into its
\* concatenation buffers.
NoBuf == Tensor("", <<0>>, <<>>)
NoRet == Node("none", <<>>, <<>>)
Worker0 ==
    [pc |-> "call", phase |-> "main", k |-> 1, acc |-> <<>>, buf |-> NoBuf, op |-> "",
     sizes |-> NoRet, ret |-> NoRet, ncoll |-> 0, wlog |-> <<>>]

Return(w, value) ==
    [w EXCEPT !.pc = IF value.kind = "raise" THEN "raised" ELSE "returned",
              !.ret = value, !.buf = NoBuf]
Post(w, t, op) ==
    [w EXCEPT !.pc = "collective", !.buf = t, !.op = op, !.ncoll = @ + 1]

\* The backend of a group, and the operators it reduces with: NCCL has no
\* BAND, BOR, BXOR.
BackendOf(group) == IF group = "WORLD/nccl" THEN "nccl" ELSE "gloo"
Supports(group, op) == BackendOf(group) = "nccl" => op \notin {"BAND", "BOR", "BXOR"}

\* line 114: group = cpu_group if device.type == "cpu" else gpu_group
GroupOf(dev) == IF dev = "cpu" THEN cpu_group ELSE gpu_group

\* get_group without the test of line 115.
get_group_unchecked(dev) == [ok |-> TRUE, group |-> GroupOf(dev)]

\* lines 114-118: the group, or (ok false) ValueError when it is None
get_group(dev) == [ok |-> GroupOf(dev) # "None", group |-> GroupOf(dev)]

\* Directed with the stack of line 312 given the dst of cat: stack(sizes, dst).
DirectedAlways(w) == call.dst # <<>>

\* lines 242-245, 283-286, 330-333: with dst given the collective of the loop
\* is dist.reduce to dst; the stack of line 312 is called without dst
Directed(w) == call.dst # <<>> /\ w.phase # "sizes"

\* values = _recursive_read(c)[0]; values = {k: th.cat(v) ...}
Buckets(c) == CatValues(_recursive_read(c).values)

\* ------------------------------------------------------------ reduce
\* lines 230-233
is_mean == call.op = "mean"
reduce_op == upper(IF is_mean THEN "sum" ELSE call.op)

\* lines 236-245 up to the collective call, and line 250 after the last bucket
ReduceLoop(r, w) ==
    LET values == Buckets(obj[r])
    IN IF w.k > Len(values)
       THEN Return(w, _recursive_write(obj[r], w.acc, None).obj)
       ELSE LET v == values[w.k].v
            IN IF ~get_group(device).ok THEN Return(w, Raised("ValueError"))
               ELSE Post(w, IF v.dtype = "bool" THEN byte(v) ELSE v, reduce_op)

\* lines 246-248
ReduceResume(r, w) ==
    LET values == Buckets(obj[r])
        dtype == values[w.k].v.dtype
        v == IF is_mean THEN DivType(w.buf, get_world_size, dtype) ELSE Type(w.buf, dtype)
    IN ReduceLoop(r, [w EXCEPT !.acc = DSet(@, values[w.k].k, v), !.k = @ + 1])

\* lines 227-233: _recursive_read raises for a value of unknown type, then
\* getattr raises AttributeError for a name ReduceOp lacks
reduce(r, w) ==
    IF _recursive_read(obj[r]).err # "" THEN Return(w, Raised(_recursive_read(obj[r]).err))
    ELSE IF reduce_op \notin ReduceOpNames THEN Return(w, Raised("AttributeError"))
    ELSE ReduceLoop(r, w)

\* ------------------------------------------------------------ stack
\* lines 276-281: s = th.zeros(get_world_size(), *v.shape); s[get_rank()] = v
StackBuffer(v, rank) ==
    LET dtype == IF v.dtype = "bool" THEN "uint8" ELSE v.dtype
        n == Len(v.data)
    IN Tensor(dtype, <<get_world_size>> \o v.shape,
              [i \in 1..(get_world_size * n) |->
                  IF (i - 1) \div n = rank THEN Cast(dtype, v.data[((i - 1) % n) + 1])
                  ELSE 0])

\* StackLoop leaving out the collective for a bucket in which the worker holds
\* no element.
StackLoopSkipEmpty(r, w, c) ==
    LET values == Buckets(c)
    IN IF w.k > Len(values)
       THEN [w EXCEPT !.pc = "stacked", !.ret = _recursive_write(c, w.acc, None).obj,
                      !.buf = NoBuf]
       ELSE IF ~get_group(device).ok THEN Return(w, Raised("ValueError"))
       ELSE IF Len(values[w.k].v.data) = 0
       THEN [w EXCEPT !.pc = "resume", !.buf = StackBuffer(values[w.k].v, get_rank(r))]
       ELSE Post(w, StackBuffer(values[w.k].v, get_rank(r)), "SUM")

\* lines 275-286 on the container c, and line 289 after the last bucket: pc
\* "stacked" with the value stack returns in ret
StackLoop(r, w, c) ==
    LET values == Buckets(c)
    IN IF w.k > Len(values)
       THEN [w EXCEPT !.pc = "stacked", !.ret = _recursive_write(c, w.acc, None).obj,
                      !.buf = NoBuf]
       ELSE IF ~get_group(device).ok THEN Return(w, Raised("ValueError"))
       ELSE Post(w, StackBuffer(values[w.k].v, get_rank(r)), "SUM")

\* line 287
StackResume(r, w, c) ==
    LET values == Buckets(c)
    IN StackLoop(r, [w EXCEPT !.acc = DSet(@, values[w.k].k, Type(w.buf, values[w.k].v.dtype)),
                              !.k = @ + 1], c)

\* stack returns (line 289) once its loop is over
StackReturn(x) == IF x.pc = "stacked" THEN Return(x, x.ret) ELSE x

\* line 271, then the loop
stack(r, w) ==
    IF _recursive_read(obj[r]).err # "" THEN Return(w, Raised(_recursive_read(obj[r]).err))
    ELSE StackReturn(StackLoop(r, w, obj[r]))

\* ------------------------------------------------------------ cat
\* line 310: sizes = {k: th.cat(v) for k, v in sizes.items()}, a dict of int64
\* tensors keyed by dtype
SizesOf(c) ==
    LET sizes == _recursive_read(c).sizes
    IN Node("dict", [i \in 1..Len(sizes) |-> sizes[i].k],
            [i \in 1..Len(sizes) |-> Tensor("int64", <<Len(sizes[i].v)>>, sizes[i].v)])

\* sizes[k] of the dict node d
Item(d, k) == d.items[CHOOSE i \in 1..Len(d.keys) : d.keys[i] = k]

\* TFlatten without the transposition: t.flatten().
TFlattenUntransposed(t) == t.data

\* line 315: t.t().flatten() of a (rows, cols) tensor
TFlatten(t) ==
    LET rows == t.shape[1]
        cols == t.shape[2]
    IN [i \in 1..(rows * cols) |-> t.data[((i - 1) % rows) * cols + ((i - 1) \div rows) + 1]]

\* line 335: t.sum(dim=0) of a (rows, cols) tensor
SumDim0(t) ==
    LET rows == t.shape[1]
        cols == t.shape[2]
    IN [j \in 1..cols |-> SumSeq([i \in 1..rows |-> t.data[(i - 1) * cols + j]])]

\* NextOffset advancing by the worker's own count only: offset += size[obj_id].
NextOffsetOwn(offset, size, obj_id) == offset + size[obj_id + 1]

\* line 327: offset += size[obj_id: obj_id + world_size].sum()
NextOffset(offset, size, obj_id) ==
    offset + SumSeq(Slice(size, obj_id, obj_id + get_world_size))

\* lines 324-328: the leaves value[i..] written into s, from offset; log
\* records each write as [lo, hi) with the length of s
RECURSIVE CatFill(_, _, _, _, _, _, _, _)
CatFill(value, i, s, offset, obj_id, size, dtype, log) ==
    IF i > Len(value) THEN [ok |-> TRUE, s |-> s, log |-> log]
    ELSE LET v == value[i]
         IN IF ~(offset + Len(v) <= Len(s))
            THEN [ok |-> FALSE, s |-> s, log |-> log]
            ELSE CatFill(value, i + 1,
                    [j \in 1..Len(s) |->
                        IF offset < j /\ j <= offset + Len(v)
                        THEN Cast(dtype, v[j - offset]) ELSE s[j]],
                    NextOffset(offset, size, obj_id),
                    obj_id + get_world_size, size, dtype,
                    Append(log, [lo |-> offset, hi |-> offset + Len(v), len |-> Len(s)]))

\* FirstOffset one entry too far: size[:obj_id + 1].sum().
FirstOffsetInclusive(size, obj_id) == SumSeq(Slice(size, 0, obj_id + 1))

\* line 323: offset = size[:obj_id].sum()
FirstOffset(size, obj_id) == SumSeq(Slice(size, 0, obj_id))

\* lines 314-333, and lines 335-337 after the last bucket
CatLoop(r, w) ==
    LET values == _recursive_read(obj[r]).values
    IN IF w.k > Len(values)
       THEN LET sizes == [i \in 1..Len(w.sizes.keys) |->
                            [k |-> w.sizes.keys[i], v |-> SumDim0(w.sizes.items[i])]]
            IN Return(w, _recursive_write(obj[r], w.acc, Some(sizes)).obj)
       ELSE LET value == values[w.k].v
                size == TFlatten(Item(w.sizes, values[w.k].k))
                dtype == IF values[w.k].k = "bool" THEN "uint8" ELSE values[w.k].k
                zeros == [j \in 1..SumSeq(size) |-> 0]
                fill == CatFill(value, 1, zeros, FirstOffset(size, get_rank(r)),
                                get_rank(r), size, dtype, <<>>)
                logged == [w EXCEPT !.wlog = @ \o fill.log]
            IN IF ~fill.ok THEN Return(logged, Raised("AssertionError"))
               ELSE IF ~get_group(device).ok THEN Return(logged, Raised("ValueError"))
               ELSE Post(logged, Tensor(dtype, <<Len(fill.s)>>, fill.s), "SUM")

\* line 334
CatResume(r, w) ==
    LET values == _recursive_read(obj[r]).values
    IN CatLoop(r, [w EXCEPT !.acc = DSet(@, values[w.k].k, Type(w.buf, values[w.k].k)),
                            !.k = @ + 1])

\* line 312 has returned: sizes = stack(sizes); the loop of line 314 starts
CatAfterSizes(r, x) ==
    IF x.pc # "stacked" THEN x
    ELSE IF x.ret.kind = "raise" THEN Return(x, x.ret)
    ELSE CatLoop(r, [x EXCEPT !.pc = "call", !.phase = "data", !.sizes = x.ret,
                              !.ret = NoRet, !.acc = <<>>, !.k = 1])

\* lines 309-312
cat(r, w) ==
    IF _recursive_read(obj[r]).err # "" THEN Return(w, Raised(_recursive_read(obj[r]).err))
    ELSE CatAfterSizes(r, StackLoop(r, [w EXCEPT !.phase = "sizes"], SizesOf(obj[r])))

\* ------------------------------------------------------------ collectives: inputs
\* The container structures passed to the collectives.  A leaf of a template
\* gives the dtype and the shape, -1 standing for the leading length, which
\* each worker chooses; <<>> is a zero-dimensional leaf.
TLeaf(dtype, shape) == Tensor(dtype, shape, <<>>)
Templates ==
    { TLeaf("int64", <<-1>>),
      Node("dict", <<"a", "b">>, <<TLeaf("int64", <<-1>>), TLeaf("bool", <<-1>>)>>),
      Node("list", <<>>, <<TLeaf("int64", <<-1>>),
                           Node("dict", <<"a">>, <<TLeaf("int64", <<-1>>)>>)>>),
      Node("tuple", <<>>, <<TLeaf("bool", <<-1>>), TLeaf("int32", <<-1, 2>>),
                            TLeaf("bool", <<-1, 2>>)>>),
      Node("dict", <<"a">>, <<TLeaf("int64", <<>>)>>),
      Node("list", <<>>, <<TLeaf("int64", <<-1>>), Unknown("str")>>),
      Node("list", <<>>, <<>>) }

\* How the leading lengths of a worker vary over its leaves: the length ln of
\* the worker at every leaf, rotated by the leaf position, or mirrored at every
\* other leaf (which keeps the total of two leaves the same on all workers).
Modes == {"same", "rotate", "mirror"}
LenAt(ln, mode, p) ==
    CASE mode = "same" -> ln
      [] mode = "rotate" -> (ln + p) % (MaxLen + 1)
      [] mode = "mirror" -> IF p % 2 = 1 THEN MaxLen - ln ELSE ln

\* Element j of leaf p on worker r: distinct magnitudes over (r, p, j), negative
\* on odd ranks; booleans alternate.
Val(dtype, r, p, j) ==
    IF dtype = "bool" THEN (r + p + j) % 2
    ELSE (IF r % 2 = 1 THEN -1 ELSE 1) * (1 + r + world_size * (j + 2 * MaxLen * p))

Instance(tpl, r, ln, mode) ==
    LET ls == Leaves(tpl)
        leaf(p) ==
            LET sh == IF ls[p + 1].shape = <<>> THEN <<>>
                      ELSE <<LenAt(ln, mode, p)>> \o Tail(ls[p + 1].shape)
            IN Tensor(ls[p + 1].dtype, sh,
                      [j \in 1..Prod(sh) |-> Val(ls[p + 1].dtype, r, p, j - 1)])
    IN Plug(tpl, [p \in 1..Len(ls) |-> leaf(p - 1)], 0)

Calls ==
    {[fn |-> "reduce", op |-> o, dst |-> <<>>] : o \in OpNames}
    \cup {[fn |-> "stack", op |-> "", dst |-> <<>>], [fn |-> "cat", op |-> "", dst |-> <<>>]}

OpsInit ==
    /\ world_size \in 1..MaxWorld
    /\ call \in Calls
    /\ \E tpl \in Templates, mode \in Modes, ln \in [Ranks -> 0..MaxLen] :
          obj = [r \in Ranks |-> Instance(tpl, r, ln[r], mode)]
    /\ wk = [r \in Ranks |-> Worker0]
    /\ cpu_group = init_process_group("gloo").cpu_group
    /\ gpu_group = init_process_group("gloo").gpu_group
    /\ device = "cpu"
    /\ dist_initialized = TRUE
    /\ environ = Launched
    /\ RTIdle
    /\ GateIdle
    /\ MasterIdle /\ KOIdle

\* ------------------------------------------------------------ collectives: actions
\* Worker r enters reduce, stack or cat and runs to its first collective call,
\* or to the end of the call.
CallOf(r, w) ==
    CASE call.fn = "reduce" -> reduce(r, w)
      [] call.fn = "stack" -> stack(r, w)
      [] call.fn = "cat" -> cat(r, w)

CallOp(r) ==
    /\ wk[r].pc = "call"
    /\ wk' = [wk EXCEPT ![r] = CallOf(r, wk[r])]
    /\ UNCHANGED <<call, obj, world_size, rt_vars, g_vars, rest_vars>>

\* dist.all_reduce(t, op): every worker of the group is in the call; each
\* worker's tensor is overwritten with the element-wise reduction.
InCollective(ws) == \A r \in Ranks : ws[r].pc = "collective"
AllInCollective == InCollective(wk)
MatchedIn(ws) ==
    \A r \in Ranks :
        /\ ws[r].buf.shape = ws[0].buf.shape
        /\ ws[r].buf.dtype = ws[0].buf.dtype
        /\ ws[r].op = ws[0].op
Matched == MatchedIn(wk)

\* The element-wise reduction of the workers' tensors over the ranks of the
\* set among, in rank order.
ReducedOver(ws, among) ==
    LET ranks == SelectSeq([q \in 1..world_size |-> q - 1], LAMBDA q : q \in among)
    IN [ws[0].buf EXCEPT !.data =
           [i \in 1..Len(ws[0].buf.data) |->
               Fold(ws[0].op, ws[0].buf.dtype,
                    [j \in 1..Len(ranks) |-> ws[ranks[j]].buf.data[i]])]]
Reduced == ReducedOver(wk, Ranks)

\* The collective of worker r is one the backend of its group carries out.
Supported(r) == Supports(get_group(device).group, wk[r].op)

\* lines 243, 245: the backend of the group has no such operator and the call
\* raises on the worker; which exception is a matter of the torch version.
CollectiveRejected(r) ==
    /\ wk[r].pc = "collective"
    /\ ~Supported(r)
    /\ \E e \in {"RuntimeError", "ValueError"} :
          wk' = [wk EXCEPT ![r] = Return(wk[r], Raised(e))]
    /\ UNCHANGED <<call, obj, world_size, rt_vars, g_vars, rest_vars>>

AllReduce ==
    /\ AllInCollective
    /\ Matched
    /\ ~Directed(wk[0])
    /\ \A r \in Ranks : Supported(r)
    /\ wk' = [r \in Ranks |-> [wk[r] EXCEPT !.pc = "resume", !.buf = Reduced]]
    /\ UNCHANGED <<call, obj, world_size, rt_vars, g_vars, rest_vars>>

\* dist.all_reduce and dist.reduce take tensors of one shape on all workers;
\* lines 243, 245, 284 and 286 pass them whatever the workers hold.  On tensors
\* whose shapes differ the outcome is not defined, and it is each worker's
\* own: the call raises, or never returns, or returns with the worker's
\* tensor as it was or holding, per element, the reduction over the workers
\* that have the element.
Partial(r) ==
    [wk[r].buf EXCEPT !.data =
        [i \in 1..Len(wk[r].buf.data) |->
            LET have == SelectSeq([q \in 1..world_size |-> q - 1],
                                  LAMBDA q : Len(wk[q].buf.data) >= i)
            IN Fold(wk[r].op, wk[r].buf.dtype,
                    [j \in 1..Len(have) |-> wk[have[j]].buf.data[i]])]]

MismatchOutcomes(r) ==
    {Return(wk[r], Raised("RuntimeError")),
     [wk[r] EXCEPT !.pc = "blocked"],
     [wk[r] EXCEPT !.pc = "resume"],
     [wk[r] EXCEPT !.pc = "resume", !.buf = Partial(r)]}

AllReduceMismatched ==
    /\ AllInCollective
    /\ ~Matched
    /\ \A r \in Ranks : Supported(r)
    /\ wk' \in [Ranks -> UNION {MismatchOutcomes(r) : r \in Ranks}]
    /\ \A r \in Ranks : wk'[r] \in MismatchOutcomes(r)
    /\ UNCHANGED <<call, obj, world_size, rt_vars, g_vars, rest_vars>>

\* dist.reduce(t, op, dst): the tensor of worker dst is overwritten with the
\* element-wise reduction; what the call leaves in the tensor of another
\* worker is not specified: its own values, or these combined with the values
\* of dst, or of all workers.
ReduceTo ==
    /\ AllInCollective
    /\ Matched
    /\ Directed(wk[0])
    /\ \A r \in Ranks : Supported(r)
    /\ \E reach \in {{}, {call.dst[1]}, Ranks} :
          wk' = [r \in Ranks |->
                    [wk[r] EXCEPT !.pc = "resume",
                                  !.buf = IF r = call.dst[1] THEN Reduced
                                          ELSE ReducedOver(wk, reach \cup {r})]]
    /\ UNCHANGED <<call, obj, world_size, rt_vars, g_vars, rest_vars>>

\* Worker r returns from the collective and runs to its next collective call,
\* or to the end of the call.
ResumeOf(r, w) ==
    CASE call.fn = "reduce" -> ReduceResume(r, w)
      [] call.fn = "stack" -> StackReturn(StackResume(r, w, obj[r]))
      [] call.fn = "cat" /\ w.phase = "sizes" ->
            CatAfterSizes(r, StackResume(r, w, SizesOf(obj[r])))
      [] call.fn = "cat" /\ w.phase = "data" -> CatResume(r, w)

Resume(r) ==
    /\ wk[r].pc = "resume"
    /\ wk' = [wk EXCEPT ![r] = ResumeOf(r, wk[r])]
    /\ UNCHANGED <<call, obj, world_size, rt_vars, g_vars, rest_vars>>

OpsNext ==
    \/ \E r \in Ranks : CallOp(r)
    \/ AllReduce
    \/ AllReduceMismatched
    \/ \E r \in Ranks : Resume(r)

Spec == OpsInit /\ [][OpsNext]_vars

\* ------------------------------------------------------------ properties of the collectives
\* The leaves the workers hold at traversal position p (1-based), in rank order.
Held(p) == [q \in 1..world_size |-> Leaves(obj[q - 1])[p]]
NLeaves == LeafCount(obj[0])

AllReturned == \A r \in Ranks : wk[r].pc = "returned"
\* Every worker passes a container of tensors.
Containers == \A r \in Ranks : IsContainer(obj[r])
NoneRaised == \A r \in Ranks : wk[r].pc # "raised"

\* Every worker holds the same leaf shapes.
SameShapes == \A p \in 1..NLeaves : \A q \in 1..world_size : Held(p)[q].shape = Held(p)[1].shape
\* Every leaf has a leading axis.
LeadingAxes == \A p \in 1..NLeaves : \A q \in 1..world_size : Len(Held(p)[q].shape) >= 1

\* The container with the structure of obj[0] (a list for every sequence) and
\* leaf(p) at traversal position p.
WithLeaves(leaf(_)) == Canon(Plug(obj[0], [p \in 1..NLeaves |-> leaf(p)], 0))

\* The concatenation along the leading axis, in rank order, of the leaves held
\* at position p.
Concatenated(p) ==
    Tensor(Held(p)[1].dtype,
           <<SumSeq([q \in 1..world_size |-> Held(p)[q].shape[1]])>> \o Tail(Held(p)[1].shape),
           Flat([q \in 1..world_size |-> Held(p)[q].data]))

\* C1: cat with dst unset returns, on every worker, the container whose leaf
\* at each traversal position is the concatenation in rank order 0..W-1 of the
\* leaves the workers held at that position, whatever the leading lengths; no
\* worker fails.
C1_CatConcatenates ==
    (call.fn = "cat" /\ Containers /\ LeadingAxes) =>
        \A r \in Ranks :
            /\ wk[r].pc # "raised"
            /\ wk[r].pc = "returned" => wk[r].ret = WithLeaves(Concatenated)

\* C1 happens: three workers have returned from cat on a container with two
\* leaves in one dtype bucket, holding different leading lengths.
C1_Witness ==
    /\ call.fn = "cat" /\ world_size = 3 /\ AllReturned /\ LeadingAxes
    /\ \E p1 \in 1..NLeaves, p2 \in 1..NLeaves :
          /\ p1 # p2 /\ Held(p1)[1].dtype = Held(p2)[1].dtype
          /\ Held(p1)[1].shape # Held(p1)[2].shape
          /\ Held(p2)[2].shape # Held(p2)[3].shape
          /\ Len(wk[0].ret.items[p1].data) >= 2

\* The leaf reduce is to return at position p: the op-combination over the
\* workers, element by element; for mean no integer element e unless
\* e * world_size is the sum.
Summed(p) ==
    [i \in 1..Len(Held(p)[1].data) |->
        Fold(reduce_op, "int64", [q \in 1..world_size |-> Held(p)[q].data[i]])]
ReducedLeafOk(t, p) ==
    /\ t.kind = "tensor" /\ t.dtype = Held(p)[1].dtype /\ t.shape = Held(p)[1].shape
    /\ Held(p)[1].dtype # "bool" =>
          /\ Len(t.data) = Len(Summed(p))
          /\ \A i \in 1..Len(t.data) :
                IF is_mean THEN t.data[i] * world_size = Summed(p)[i]
                ELSE t.data[i] = Summed(p)[i]

RecognizedOps == {"sum", "mean", "min", "max", "product"}

\* C2: reduce on containers of the same structure and leaf shapes returns on
\* every worker a container of that structure and those leaf shapes whose
\* elements are the op-combination over the workers (for mean: the sum divided
\* by the world size).
C2_ReduceCombines ==
    (call.fn = "reduce" /\ call.op \in RecognizedOps /\ SameShapes) =>
        \A r \in Ranks :
            wk[r].pc = "returned" =>
                /\ Canon(Plug(wk[r].ret, Leaves(obj[0]), 0)) = Canon(obj[0])
                /\ \A p \in 1..NLeaves : ReducedLeafOk(Leaves(wk[r].ret)[p], p)

\* The leaf stack is to return at position p: shape (world_size, *shape), slot
\* r the leaf worker r passed.
Stacked(p) ==
    Tensor(Held(p)[1].dtype, <<world_size>> \o Held(p)[1].shape,
           Flat([q \in 1..world_size |-> Held(p)[q].data]))

\* C3: stack on containers of the same structure and leaf shapes returns on
\* every worker a container whose leaves have shape (world_size, *shape), slot
\* r holding exactly the leaf worker r passed.
C3_StackSlots ==
    (call.fn = "stack" /\ Containers /\ SameShapes) =>
        \A r \in Ranks :
            /\ wk[r].pc # "raised"
            /\ wk[r].pc = "returned" => wk[r].ret = WithLeaves(Stacked)

\* The dtype buckets of all workers have the same lengths.
SameBucketLengths ==
    \A r \in Ranks :
        [i \in 1..Len(Buckets(obj[r])) |-> Len(Buckets(obj[r])[i].v.data)]
            = [i \in 1..Len(Buckets(obj[0])) |-> Len(Buckets(obj[0])[i].v.data)]

\* C7: reduce and stack on containers whose leaves differ in shape between two
\* workers at some position never return a container, also when every dtype
\* bucket has the same total element count on all workers; every worker ends
\* in an error.
C7_MismatchRejected ==
    (call.fn \in {"reduce", "stack"} /\ ~SameShapes /\ SameBucketLengths) =>
        \A r \in Ranks : wk[r].pc # "returned"

\* C10: reduce with an op name outside {sum, mean, min, max, product} fails on
\* every worker before any collective call and returns no container.
C10_UnknownOpRejected ==
    (call.fn = "reduce" /\ call.op \notin RecognizedOps) =>
        \A r \in Ranks :
            /\ wk[r].pc \in {"call", "raised"}
            /\ wk[r].ncoll = 0

\* Some worker holds no element at some leaf.
SomeEmpty == \E p \in 1..NLeaves : \E q \in 1..world_size : Len(Held(p)[q].data) = 0

\* C8: in cat with empty contributions every write into a concatenation buffer
\* lies within the buffer, no worker fails, and every rebuilt leaf holds as
\* many elements as all workers contributed at its position.
C8_CatEmptyContributions ==
    (call.fn = "cat" /\ Containers /\ SomeEmpty) =>
        \A r \in Ranks :
            /\ wk[r].pc # "raised"
            /\ \A i \in 1..Len(wk[r].wlog) :
                  /\ 0 <= wk[r].wlog[i].lo
                  /\ wk[r].wlog[i].lo <= wk[r].wlog[i].hi
                  /\ wk[r].wlog[i].hi <= wk[r].wlog[i].len
            /\ wk[r].pc = "returned" =>
                  \A p \in 1..NLeaves :
                      Len(Leaves(wk[r].ret)[p].data)
                          = SumSeq([q \in 1..world_size |-> Len(Held(p)[q].data)])

\* C8 happens: three workers have returned from cat; one of them contributed
\* nothing at any of several leaves, and one leaf got elements from one worker
\* only.
C8_Witness ==
    /\ call.fn = "cat" /\ world_size = 3 /\ AllReturned /\ NLeaves >= 2
    /\ \E q \in 1..world_size : \A p \in 1..NLeaves : Len(Held(p)[q].data) = 0
    /\ \E p \in 1..NLeaves :
          Cardinality({q \in 1..world_size : Len(Held(p)[q].data) > 0}) = 1
    /\ \E r \in Ranks : Len(wk[r].wlog) >= 2

\* The calls the boolean round trip is about: a collective that combines
\* leaves of matching shapes with a recognized operator, or cat.
BoolCase ==
    \/ call.fn = "cat" /\ LeadingAxes
    \/ call.fn = "stack" /\ SameShapes
    \/ call.fn = "reduce" /\ SameShapes /\ call.op \in RecognizedOps

\* C9: boolean leaves come out of reduce, stack and cat as boolean leaves; out
\* of stack and cat with every element the boolean the contributing worker
\* supplied; the other leaves of the container keep their dtype and, in stack
\* and cat, the values supplied.
C9_BooleanRoundTrip ==
    BoolCase =>
        \A r \in Ranks :
            wk[r].pc = "returned" =>
                \A p \in 1..NLeaves :
                    LET t == Leaves(wk[r].ret)[p]
                    IN /\ t.dtype = Held(p)[1].dtype
                       /\ t.dtype = "bool" => \A i \in 1..Len(t.data) : t.data[i] \in {0, 1}
                       /\ call.fn \in {"stack", "cat"} =>
                             t.data = Flat([q \in 1..world_size |-> Held(p)[q].data])
                       /\ (call.fn = "reduce" /\ t.dtype # "bool" /\ ~is_mean) =>
                             t.data = Summed(p)

\* C9 happens: three workers have returned from stack on a container with a
\* boolean and a non-boolean leaf, the boolean leaf holding both truth values.
C9_Witness ==
    /\ call.fn = "stack" /\ world_size = 3 /\ AllReturned /\ SameShapes
    /\ \E p1 \in 1..NLeaves, p2 \in 1..NLeaves :
          /\ Held(p1)[1].dtype = "bool" /\ Held(p2)[1].dtype # "bool"
          /\ \E i \in 1..Len(Leaves(wk[0].ret)[p1].data) :
                \E j \in 1..Len(Leaves(wk[0].ret)[p1].data) :
                    /\ Leaves(wk[0].ret)[p1].data[i] = 1
                    /\ Leaves(wk[0].ret)[p1].data[j] = 0
          /\ \E i \in 1..Len(Leaves(wk[0].ret)[p2].data) : Leaves(wk[0].ret)[p2].data[i] < 0

\* ------------------------------------------------------------ process groups
\* The collectives in every state of the module globals: init_process_group
\* never called, with dist not initialized or initialized by
\* initialize_deepspeed (tensors on either device), or called with nccl
\* (tensors on either device) or with gloo (tensors on the cpu).  The job is
\* started by a launcher that sets RANK and WORLD_SIZE.
Devices == {"cpu", "cuda"}
Setups ==
    {[topology |-> initialize_deepspeed(Unstarted, ds), device |-> d] :
        ds \in BOOLEAN, d \in Devices}
    \cup {[topology |-> Started("nccl"), device |-> d] : d \in Devices}
    \cup {[topology |-> Started("gloo"), device |-> "cpu"]}

GroupsInit ==
    /\ world_size \in 1..MaxWorld
    /\ call \in Calls
    /\ \E tpl \in Templates, ln \in [Ranks -> 0..MaxLen] :
          obj = [r \in Ranks |-> Instance(tpl, r, ln[r], "same")]
    /\ wk = [r \in Ranks |-> Worker0]
    /\ \E setup \in Setups :
          /\ device = setup.device
          /\ dist_initialized = setup.topology.initialized
          /\ cpu_group = setup.topology.cpu_group
          /\ gpu_group = setup.topology.gpu_group
    /\ environ = Launched
    /\ RTIdle
    /\ GateIdle
    /\ MasterIdle /\ KOIdle

GroupsNext ==
    \/ \E r \in Ranks : CallOp(r)
    \/ \E r \in Ranks : CollectiveRejected(r)
    \/ AllReduce
    \/ AllReduceMismatched
    \/ \E r \in Ranks : Resume(r)

SpecGroups == GroupsInit /\ [][GroupsNext]_vars

NoGroup == cpu_group = "None" /\ gpu_group = "None"

\* C11 as stated: with no group initialized, reduce, stack and cat on a
\* container with at least one leaf raise the group error (ValueError of line
\* 116) on every worker before any collective call, and return nothing.
C11_GroupNotInitialized ==
    (NoGroup /\ Containers /\ NLeaves >= 1) =>
        \A r \in Ranks :
            /\ wk[r].ncoll = 0
            /\ wk[r].pc \in {"call", "raised"}
            /\ wk[r].pc = "raised" => wk[r].ret = Raised("ValueError")

\* C11 amended: with no group initialized, reduce, stack and cat on a
\* container with at least one leaf fail on every worker before any collective
\* call and return nothing; the error is the group error, except in reduce with
\* an op name that dist.ReduceOp lacks, which fails with the error of that name
\* lookup (line 233) before the group is looked up.
C11_FailFast ==
    (NoGroup /\ Containers /\ NLeaves >= 1) =>
        \A r \in Ranks :
            /\ wk[r].ncoll = 0
            /\ wk[r].pc \in {"call", "raised"}
            /\ wk[r].pc = "raised" =>
                  wk[r].ret = IF call.fn = "reduce" /\ reduce_op \notin ReduceOpNames
                              THEN Raised("AttributeError")
                              ELSE Raised("ValueError")

\* C11 happens: with no group initialized, three workers called cat on a
\* container of several leaves and each one ended in the group error.
C11_Witness ==
    /\ NoGroup /\ world_size = 3 /\ call.fn = "cat" /\ NLeaves >= 2
    /\ \A r \in Ranks : wk[r].pc = "raised" /\ wk[r].ret = Raised("ValueError")

\* ------------------------------------------------------------ cat: offsets
\* The dtype buckets of worker q, the element count of worker q at leaf i of
\* bucket b, the elements all workers hold at that leaf, and in the bucket.
BucketsOf(q) == _recursive_read(obj[q]).values
Count(q, b, i) == Len(BucketsOf(q)[b].v[i])
LeafTotal(b, i) == SumSeq([q \in 1..world_size |-> Count(q - 1, b, i)])
BucketTotal(b) == SumSeq([i \in 1..Len(BucketsOf(0)[b].v) |-> LeafTotal(b, i)])

\* The offset of the claim: all workers' counts at the leaves before i, then
\* the counts of the lower ranks at leaf i.
ExpectedOffset(r, b, i) ==
    SumSeq([j \in 1..(i - 1) |-> LeafTotal(b, j)])
    + SumSeq([q \in 1..r |-> Count(q - 1, b, i)])

\* The place in a worker's log of its write for leaf i of bucket b.
LogIndex(b, i) == SumSeq([c \in 1..(b - 1) |-> Len(BucketsOf(0)[c].v)]) + i
Logged(r, b) == LogIndex(b, Len(BucketsOf(0)[b].v)) <= Len(wk[r].wlog)
Write(r, b, i) == wk[r].wlog[LogIndex(b, i)]

\* The cells of bucket b written by worker r.
OwnCells(r, b) ==
    {c \in 0..(BucketTotal(b) - 1) :
        \E i \in 1..Len(BucketsOf(0)[b].v) : Write(r, b, i).lo <= c /\ c < Write(r, b, i).hi}

\* C13: in cat, worker r writes leaf i of a dtype bucket at the offset (all
\* workers' counts at the leaves before i) + (the counts of the ranks below r
\* at leaf i), into a buffer of the bucket's grand total; once all workers
\* have filled a bucket, every cell of [0, grand total) lies in the write range
\* of exactly one (worker, leaf) pair; and the buffer a worker hands to the
\* sum-reduction is zero outside its own ranges.
C13_CatOffsets ==
    call.fn = "cat" =>
        /\ \A r \in Ranks : \A b \in 1..Len(BucketsOf(0)) :
              Logged(r, b) =>
                  \A i \in 1..Len(BucketsOf(0)[b].v) :
                      /\ Write(r, b, i).lo = ExpectedOffset(r, b, i)
                      /\ Write(r, b, i).hi = ExpectedOffset(r, b, i) + Count(r, b, i)
                      /\ Write(r, b, i).len = BucketTotal(b)
        /\ \A b \in 1..Len(BucketsOf(0)) :
              (\A r \in Ranks : Logged(r, b)) =>
                  \A c \in 0..(BucketTotal(b) - 1) :
                      Cardinality({x \in Ranks \X (1..Len(BucketsOf(0)[b].v)) :
                                      Write(x[1], b, x[2]).lo <= c /\ c < Write(x[1], b, x[2]).hi}) = 1
        /\ \A r \in Ranks :
              (wk[r].pc = "collective" /\ wk[r].phase = "data") =>
                  \A c \in 0..(BucketTotal(wk[r].k) - 1) :
                      c \notin OwnCells(r, wk[r].k) => wk[r].buf.data[c + 1] = 0

\* C13 happens: three workers have returned from cat; a worker of rank above 0
\* wrote its first leaf after the lower ranks' elements and its second leaf
\* beyond the higher ranks' elements of the first.
C13_Witness ==
    /\ call.fn = "cat" /\ world_size = 3 /\ AllReturned
    /\ \E r \in Ranks \ {0} :
          /\ Len(wk[r].wlog) >= 2
          /\ wk[r].wlog[1].lo > 0
          /\ wk[r].wlog[1].hi > wk[r].wlog[1].lo
          /\ wk[r].wlog[2].len = wk[r].wlog[1].len
          /\ wk[r].wlog[2].lo > wk[r].wlog[1].hi

\* ------------------------------------------------------------ key order
\* _recursive_read and _recursive_write on two dicts that hold the same value
\* for every key and were built in different orders.  Reorders(c) is the set
\* of containers obtained from c by permuting the entries of its dict nodes.
Perms(n) == {p \in [1..n -> 1..n] : \A i \in 1..n : \A j \in 1..n : i # j => p[i] # p[j]}

RECURSIVE Reorders(_)
Reorders(c) ==
    IF c.kind = "tensor" THEN {c}
    ELSE LET n == Len(c.items)
             kids == {f \in [1..n -> UNION {Reorders(c.items[i]) : i \in 1..n}] :
                         \A i \in 1..n : f[i] \in Reorders(c.items[i])}
         IN IF c.kind = "dict"
            THEN {Node("dict", [i \in 1..n |-> c.keys[p[i]]], [i \in 1..n |-> f[p[i]]]) :
                     p \in Perms(n), f \in kids}
            ELSE {[c EXCEPT !.items = f] : f \in kids}

\* The leaves of the key-order containers: one-dimensional and not empty.
KOLeaves == {t \in RTLeaves : Len(t.shape) = 1 /\ t.shape[1] >= 1}

KOInit ==
    /\ \E sk \in Skeletons[MaxNodes - 1].trees :
         \E ls \in [1..LeafCount(sk) -> KOLeaves] :
            /\ ko_a = Plug(sk, ls, 0)
            /\ ko_b \in Reorders(Plug(sk, ls, 0))
    /\ ko_pc = "start"
    /\ ko_fa = <<>> /\ ko_fb = <<>> /\ ko_out = Node("list", <<>>, <<>>)
    /\ world_size = 1
    /\ RTIdle /\ GateIdle /\ OpsIdle /\ EnvIdle /\ MasterIdle

\* lines 309-310 on either container: the per-dtype buffers and the size table
Flattened(c) ==
    [values |-> CatValues(_recursive_read(c).values), sizes |-> _recursive_read(c).sizes]

KOFlatten ==
    /\ ko_pc = "start"
    /\ ko_fa' = Flattened(ko_a)
    /\ ko_fb' = Flattened(ko_b)
    /\ ko_pc' = "flat"
    /\ UNCHANGED <<ko_a, ko_b, ko_out, world_size, rt_vars, g_vars, op_vars, env_vars, m_vars>>

\* line 250 on the second container with the buffers of the first, as after
\* a collective that combined the workers' buffers position by position
KORebuild ==
    /\ ko_pc = "flat"
    /\ ko_out' = _recursive_write(ko_b, ko_fa.values, None).obj
    /\ ko_pc' = "done"
    /\ UNCHANGED <<ko_a, ko_b, ko_fa, ko_fb, world_size, rt_vars, g_vars, op_vars,
                   env_vars, m_vars>>

KONext == KOFlatten \/ KORebuild
SpecKeyOrder == KOInit /\ [][KONext]_vars

\* Equality of containers as maps: the same keys with the same value per key,
\* whatever the order of the entries; a sequence is a list or a tuple.
RECURSIVE SameMap(_, _)
SameMap(x, y) ==
    IF x.kind = "dict"
    THEN /\ y.kind = "dict"
         /\ {x.keys[i] : i \in 1..Len(x.keys)} = {y.keys[i] : i \in 1..Len(y.keys)}
         /\ \A i \in 1..Len(x.keys) : SameMap(x.items[i], Item(y, x.keys[i]))
    ELSE IF x.kind \in {"list", "tuple"}
    THEN /\ y.kind \in {"list", "tuple"}
         /\ Len(x.items) = Len(y.items)
         /\ \A i \in 1..Len(x.items) : SameMap(x.items[i], y.items[i])
    ELSE x = y

\* C14: two containers that are the same maps, built in different insertion
\* orders, flatten to the same per-dtype buffers and the same size table; and
\* rebuilding one of them from the buffers of the other gives every key the
\* value it had.
C14_CanonicalKeyOrder ==
    /\ ko_pc \in {"flat", "done"} => ko_fa = ko_fb
    /\ ko_pc = "done" => SameMap(ko_out, ko_a)

\* ------------------------------------------------------------ matched collectives
\* The workers run: a worker that can take a step of its call takes it, and a
\* collective on matching tensors that every worker has entered completes.
\* Nothing is required of a collective on tensors whose shapes differ.
\* This is weak fairness of the three actions, WF_vars(A), each written out as
\* []<>~ENABLED <<A>>_vars \/ []<><<A>>_vars with the action's guard for its
\* enabling condition.
CanCall == \E r \in Ranks : wk[r].pc = "call"
CanResume == \E r \in Ranks : wk[r].pc = "resume"
CanAllReduce ==
    AllInCollective /\ Matched /\ ~Directed(wk[0]) /\ \A r \in Ranks : Supported(r)

SpecLive ==
    /\ OpsInit
    /\ [][OpsNext]_vars
    /\ ([]<>~CanCall \/ []<><<\E r \in Ranks : CallOp(r)>>_vars)
    /\ ([]<>~CanAllReduce \/ []<><<AllReduce>>_vars)
    /\ ([]<>~CanResume \/ []<><<\E r \in Ranks : Resume(r)>>_vars)

\* The dtypes of the buffers a call passes to its collectives, in order: one
\* collective per dtype bucket (bool as uint8), and for cat before them the
\* one collective of stack(sizes): the size tables of all buckets are int64
\* and make one bucket.
BucketKeys == [b \in 1..Len(BucketsOf(0)) |-> BucketsOf(0)[b].k]
AsSent(dtype) == IF dtype = "bool" THEN "uint8" ELSE dtype
SizeCollectives == IF call.fn = "cat" /\ Len(BucketKeys) >= 1 THEN <<"int64">> ELSE <<>>
CollectiveSeq == SizeCollectives \o [b \in 1..Len(BucketKeys) |-> AsSent(BucketKeys[b])]

AllEnded == \A r \in Ranks : wk[r].pc \in {"returned", "raised"}

\* Every worker's collective calls follow CollectiveSeq, and a worker that
\* has returned has made all of them.
SameSequence ==
    \A r \in Ranks :
        /\ wk[r].ncoll <= Len(CollectiveSeq)
        /\ wk[r].pc \in {"collective", "resume"} =>
              /\ wk[r].ncoll >= 1
              /\ wk[r].buf.dtype = CollectiveSeq[wk[r].ncoll]
              /\ wk[r].op = (IF call.fn = "reduce" THEN reduce_op ELSE "SUM")
              /\ call.fn = "cat" =>
                    (wk[r].phase = "sizes" <=> wk[r].ncoll <= Len(SizeCollectives))
        /\ wk[r].pc = "returned" => wk[r].ncoll = Len(CollectiveSeq)

\* A call whose collectives are defined: containers of tensors, an operator
\* dist.ReduceOp has, and in reduce and stack buffers of the same length on all
\* workers.
WellFormed ==
    /\ Containers
    /\ call.fn = "reduce" => reduce_op \in ReduceOpNames
    /\ call.fn \in {"reduce", "stack"} => SameBucketLengths

\* Some worker can take a step of its call, or a collective can complete.
CanProgress == CanCall \/ CanResume \/ CanAllReduce

\* C15 as stated: the workers pass containers of tensors of the same
\* structure, key order and leaf dtypes.  Every worker then issues the same
\* collective calls in the same dtype-bucket order (for cat the collective of
\* the size table first), no worker's call ends in an error, and no worker
\* stays blocked: until every call has returned, a worker can take a step or
\* a collective that all workers have entered can complete.  Under the
\* fairness of SpecLive this is that every worker's call eventually returns.
C15_MatchedCollectives ==
    Containers => /\ SameSequence
                  /\ NoneRaised
                  /\ AllReturned \/ CanProgress

\* C15 amended: the same, for the calls whose collectives are defined: reduce
\* with an operator dist.ReduceOp has, and reduce and stack on containers
\* whose dtype buckets have the same length on every worker; cat on any
\* leading lengths.  The collective calls follow one sequence on every worker
\* in every call on containers of tensors; in a call whose collectives are
\* defined no worker raises, no worker stays blocked, and every worker's
\* call eventually returns.
C15_DefinedCollectives ==
    /\ [](Containers => SameSequence)
    /\ [](WellFormed => NoneRaised /\ (AllReturned \/ CanProgress))
    /\ (WellFormed => <>AllReturned)

\* C15 fails as stated: every worker is stopped in stack on containers of the
\* same structure and dtypes whose leaves differ in length between the
\* workers, in a collective that did not return on one of them.
C15_Blocked ==
    /\ Containers /\ call.fn = "stack" /\ ~SameBucketLengths
    /\ ~CanProgress
    /\ \E r \in Ranks : wk[r].pc = "blocked"

\* C15 happens: three workers have returned from cat on a container with two
\* dtype buckets, each after three collective calls.
C15_Witness ==
    /\ call.fn = "cat" /\ world_size = 3 /\ AllReturned
    /\ Len(BucketKeys) = 2
    /\ \A r \in Ranks : wk[r].ncoll = 3

\* ------------------------------------------------------------ directed variant
\* reduce (sum, mean, max), stack and cat called by every worker with the
\* same dst.
DstCalls ==
    {[c EXCEPT !.dst = <<d>>] : c \in {x \in Calls : x.op \in {"", "sum", "mean", "max"}},
                                d \in Ranks}

DstInit ==
    /\ world_size \in 1..MaxWorld
    /\ call \in DstCalls
    /\ \E tpl \in Templates, mode \in Modes, ln \in [Ranks -> 0..MaxLen] :
          obj = [r \in Ranks |-> Instance(tpl, r, ln[r], mode)]
    /\ wk = [r \in Ranks |-> Worker0]
    /\ cpu_group = init_process_group("gloo").cpu_group
    /\ gpu_group = init_process_group("gloo").gpu_group
    /\ device = "cpu"
    /\ dist_initialized = TRUE
    /\ environ = Launched
    /\ RTIdle
    /\ GateIdle
    /\ MasterIdle /\ KOIdle

DstNext ==
    \/ \E r \in Ranks : CallOp(r)
    \/ AllReduce
    \/ ReduceTo
    \/ AllReduceMismatched
    \/ \E r \in Ranks : Resume(r)

SpecDst == DstInit /\ [][DstNext]_vars

\* The same call with dst unset: all workers run it from its entry, every
\* collective an all_reduce, as long as the collectives are on matching tensors.
RECURSIVE CallAll(_, _), ResumeAll(_, _, _), Lockstep(_)
CallAll(ws, r) ==
    IF r = world_size THEN ws
    ELSE CallAll([ws EXCEPT ![r] = CallOf(r, Worker0)], r + 1)
ResumeAll(ws, reduced, r) ==
    IF r = world_size THEN ws
    ELSE ResumeAll([ws EXCEPT ![r] = ResumeOf(r, [ws[r] EXCEPT !.pc = "resume",
                                                               !.buf = reduced])],
                   reduced, r + 1)
Lockstep(ws) ==
    IF InCollective(ws) /\ MatchedIn(ws)
    THEN Lockstep(ResumeAll(ws, ReducedOver(ws, Ranks), 0))
    ELSE ws
Undirected == Lockstep(CallAll([r \in Ranks |-> Worker0], 0))

\* The stacked size table of cat: per dtype bucket the (world_size x leaves of
\* the bucket) matrix of the workers' element counts.
SizeMatrix ==
    Node("dict", BucketKeys,
         [b \in 1..Len(BucketKeys) |->
             Tensor("int64", <<world_size, Len(BucketsOf(0)[b].v)>>,
                    Flat([q \in 1..world_size |->
                             [i \in 1..Len(BucketsOf(0)[b].v) |-> Count(q - 1, b, i)]]))])

\* C16: all workers call reduce, stack or cat with the same dst = d.  When the
\* call with dst unset returns on every worker, the call with dst = d returns
\* on worker d the container the call with dst unset returns there, which in
\* cat, and in reduce and stack on leaves of the same shapes, is the container
\* it returns on every worker; and in cat every worker, whatever its rank,
\* holds the full size matrix after stack(sizes).
C16_DirectedVariant ==
    call.dst # <<>> =>
        /\ wk[call.dst[1]].pc \in {"returned", "raised"} =>
              LET unset == Undirected
              IN (\A r \in Ranks : unset[r].pc = "returned") =>
                    /\ wk[call.dst[1]].pc = "returned"
                    /\ wk[call.dst[1]].ret = unset[call.dst[1]].ret
                    /\ (call.fn = "cat" \/ SameShapes) =>
                          \A r \in Ranks : wk[call.dst[1]].ret = unset[r].ret
        /\ call.fn = "cat" =>
               \A r \in Ranks : wk[r].phase = "data" => wk[r].sizes = SizeMatrix

\* C16 happens: three workers have returned from cat with dst = 1 on a
\* container of several leaves; worker 1 holds what the call with dst unset
\* returns and another worker does not.
C16_Witness ==
    /\ call.fn = "cat" /\ call.dst = <<1>> /\ world_size = 3 /\ AllReturned
    /\ NLeaves >= 2
    /\ LET unset == Undirected
       IN /\ wk[1].ret = unset[1].ret
          /\ \E r \in Ranks \ {1} : wk[r].ret # unset[r].ret

\* ------------------------------------------------------------ master_process_only
\* Every worker calls a function wrapped by master_process_only.  func is the
\* caller's function; m_syncs is the number of synchronize() calls it makes
\* when it does not raise.
MasterInit ==
    /\ world_size \in 1..MaxWorld
    /\ m_syncs \in 0..MaxSyncs
    /\ m_pc = [r \in Ranks |-> "call"]
    /\ m_wait = [r \in Ranks |-> 0]
    /\ m_ret = [r \in Ranks |-> "none"]
    /\ TopologyInit
    /\ RTIdle /\ GateIdle /\ OpsIdle /\ KOIdle

\* line 73: if get_rank() == 0
MasterEnter(r) ==
    /\ m_pc[r] = "call"
    /\ m_pc' = [m_pc EXCEPT ![r] = IF get_rank(r) = 0 THEN "func" ELSE "sync"]
    /\ UNCHANGED <<m_syncs, m_wait, m_ret, world_size, rt_vars, g_vars, op_vars,
                   env_vars, ko_vars>>

\* lines 74-75: result = func(*args, **kwargs); return result.  Each
\* synchronize() of func enters dist.barrier() when the world has more than
\* one worker (lines 151-152), which raises without a default process group;
\* after the last one func returns.
MasterFunc(r) ==
    /\ m_pc[r] = "func"
    /\ IF m_wait[r] < m_syncs /\ get_world_size > 1
       THEN IF dist_initialized
            THEN /\ m_wait' = [m_wait EXCEPT ![r] = @ + 1]
                 /\ m_pc' = [m_pc EXCEPT ![r] = "func_barrier"]
                 /\ UNCHANGED m_ret
            ELSE /\ \E e \in NoDefaultGroup : m_pc' = [m_pc EXCEPT ![r] = e]
                 /\ UNCHANGED <<m_wait, m_ret>>
       ELSE /\ m_pc' = [m_pc EXCEPT ![r] = "returned"]
            /\ m_ret' = [m_ret EXCEPT ![r] = "result"]
            /\ UNCHANGED m_wait
    /\ UNCHANGED <<m_syncs, world_size, rt_vars, g_vars, op_vars, env_vars, ko_vars>>

\* line 74: func raises, before or between its synchronize() calls; the
\* exception leaves wrapper on the worker.
MasterFuncRaise(r) ==
    /\ m_pc[r] = "func"
    /\ m_pc' = [m_pc EXCEPT ![r] = "FuncError"]
    /\ UNCHANGED <<m_syncs, m_wait, m_ret, world_size, rt_vars, g_vars, op_vars, env_vars,
                   ko_vars>>

\* a barrier entered inside func returns once every worker has entered it,
\* and func goes on
MasterFuncBarrier(r) ==
    /\ m_pc[r] = "func_barrier"
    /\ \A q \in Ranks : m_wait[q] >= m_wait[r]
    /\ m_pc' = [m_pc EXCEPT ![r] = "func"]
    /\ UNCHANGED <<m_syncs, m_wait, m_ret, world_size, rt_vars, g_vars, op_vars, env_vars,
                   ko_vars>>

\* line 76 on the other ranks: synchronize()
MasterSync(r) ==
    /\ m_pc[r] = "sync"
    /\ IF get_world_size > 1
       THEN IF dist_initialized
            THEN /\ m_wait' = [m_wait EXCEPT ![r] = @ + 1]
                 /\ m_pc' = [m_pc EXCEPT ![r] = "barrier"]
                 /\ UNCHANGED m_ret
            ELSE /\ \E e \in NoDefaultGroup : m_pc' = [m_pc EXCEPT ![r] = e]
                 /\ UNCHANGED <<m_wait, m_ret>>
       ELSE /\ m_pc' = [m_pc EXCEPT ![r] = "returned"]
            /\ m_ret' = [m_ret EXCEPT ![r] = "None"]
            /\ UNCHANGED m_wait
    /\ UNCHANGED <<m_syncs, world_size, rt_vars, g_vars, op_vars, env_vars, ko_vars>>

\* dist.barrier() of line 152 returns once every worker has entered it;
\* wrapper falls off its end and returns None
MasterBarrierReturn(r) ==
    /\ m_pc[r] = "barrier"
    /\ \A q \in Ranks : m_wait[q] >= m_wait[r]
    /\ m_pc' = [m_pc EXCEPT ![r] = "returned"]
    /\ m_ret' = [m_ret EXCEPT ![r] = "None"]
    /\ UNCHANGED <<m_syncs, m_wait, world_size, rt_vars, g_vars, op_vars, env_vars,
                   ko_vars>>

MasterNext ==
    \/ \E r \in Ranks : MasterEnter(r)
    \/ \E r \in Ranks : MasterFunc(r)
    \/ \E r \in Ranks : MasterFuncRaise(r)
    \/ \E r \in Ranks : MasterFuncBarrier(r)
    \/ \E r \in Ranks : MasterSync(r)
    \/ \E r \in Ranks : MasterBarrierReturn(r)

SpecMaster == MasterInit /\ [][MasterNext]_vars

\* C18: in a world of more than one worker with dist initialized, the workers
\* that have returned from the wrapped call have made the same number of
\* barrier calls, and no worker waits at a barrier that a worker which has
\* returned did not enter.
C18_MasterOnlyBarriers ==
    (world_size > 1 /\ dist_initialized) =>
        /\ \A r \in Ranks : \A q \in Ranks :
              (m_pc[r] = "returned" /\ m_pc[q] = "returned") => m_wait[r] = m_wait[q]
        /\ ~ \E r \in Ranks : \E q \in Ranks :
                /\ m_pc[r] \in {"barrier", "func_barrier"}
                /\ m_pc[q] = "returned"
                /\ m_wait[q] < m_wait[r]

====
